---- MODULE Spec2Model ----
(***************************************************************************)
(* State-machine model of the MTG search bot (src/main.py).                *)
(*                                                                         *)
(* Every handler registered on the application (src/main.py:566-576) is    *)
(* one action.  python-telegram-bot runs the handlers of one application   *)
(* one update at a time (ApplicationBuilder() is built without             *)
(* concurrent_updates, src/main.py:565), so a handler is atomic here.      *)
(*                                                                         *)
(* A handler is written as an operator from a "world" record (the bot's    *)
(* dictionaries and the chat transport's messages) to the world after it,  *)
(* statement by statement, so that a handler that raises half way keeps    *)
(* the assignments it already made before error_handler runs.              *)
(***************************************************************************)
EXTENDS Integers, Sequences, FiniteSets

\* ---------------------------------------------------------------- bounds
\* Message ids handed out by the transport in the main specification.
MaxMsgs == 3
\* Message ids handed out in the specification of the message tracker.
MaxMsgsCleanup == 5
\* Message ids handed out in the specification of the session store.
MaxMsgsChats == 2
\* Cap on page_offset, which findnext would otherwise raise for ever.
MaxPageOffset == 2
\* Size of one page of the provider's search results (175 at the provider,
\* scaled down; the code never names it).
RemotePageSize == 8
\* Largest total_cards the provider reports.
MaxTotal == 14
\* Largest number of variants the provider lists for one card.
MaxPrints == 2
\* Name buttons of one list render that are pressed.
MaxChoice == 2
\* Largest count given to /cleanup.
MaxCount == 2
\* Ids tracked beyond the log's capacity in the tracking specification.
MaxEvict == 3
\* Message ids handed out in the specification of the detail view.
MaxMsgsDetail == 4
\* Message ids handed out in the specification of the dispatcher.
MaxMsgsOverlap == 1
\* Updates waiting in the update queue.
MaxPending == 2
\* Size of one page of the provider's search results in the specification of
\* inline mode (175 at the provider; kept above the 48 results of one inline
\* answer).
InlinePageSize == 50
\* Message ids handed out in the specification of the query.
MaxMsgsQuery == 2
\* Longest list of cards given to build_collage on its own.
MaxItems == 4

\* ----------------------------------------------------- program constants
MAX_TRACKED_MESSAGES == 500
\* cards[:6] and "total > 6" of find
FindWindow == 6
\* page_size of handle_find_choice
page_size == 6
\* /cleanup without a numeric argument
DefaultCount == 15
\* cards[:48] of inline_query
InlineCap == 48

Users == {"u1", "u2"}
Chats == {"A", "B"}
Queries == {1, 2}

\* A card of the provider: <<query, rank>>, rank counted from 1.
Card(q, i) == <<q, i>>
NoCard == <<0, 0>>
\* ctx.args of a command given without arguments
NoArgs == <<>>

VARIABLES
    user_data,      \* ctx.user_data, one dict per user
    sent_messages,  \* ctx.application.bot_data["sent_messages"]: chat -> deque
    messages,       \* the transport: message id -> [chat, live, offered, view]
    nextId,         \* next message id the transport hands out
    tracked,        \* history: chat -> every id ever given to track_message
    lastOp,         \* history: the interaction handled last and what it did
    update_queue,   \* application.update_queue: updates not yet dispatched
    running         \* handlers suspended at an await, with their locals

vars == <<user_data, sent_messages, messages, nextId, tracked, lastOp,
          update_queue, running>>

\* ------------------------------------------------------- python helpers
Min(a, b) == IF a < b THEN a ELSE b
Max(a, b) == IF a > b THEN a ELSE b

\* dict.get(k, default)
Get(d, k, default) == IF k \in DOMAIN d THEN d[k] ELSE default
\* d[k] = v
Put(d, k, v) == [x \in (DOMAIN d) \cup {k} |-> IF x = k THEN v ELSE d[x]]
EmptyDict == [x \in {} |-> 0]

\* s[a:b] for 0 <= a, 0 <= b
Slice(s, a, b) ==
    LET lo == Min(a, Len(s))
        hi == Min(b, Len(s))
    IN  IF hi <= lo THEN <<>> ELSE [i \in 1..(hi - lo) |-> s[lo + i]]

\* s[-n:] for n >= 0.  -0 is 0, so s[-0:] is s[0:], the whole list.
LastSlice(s, n) ==
    IF n = 0 THEN s
    ELSE IF n >= Len(s) THEN s
    ELSE [i \in 1..n |-> s[Len(s) - n + i]]

\* a % n of Python for n > 0: the result has the sign of n.
PyMod(a, n) == ((a % n) + n) % n

Range(s) == {s[i] : i \in DOMAIN s}

\* ------------------------------------------------------------- provider
\* The provider's answer to /cards/search?q=..: the first remote page of the
\* result set and the size of the whole result set.
SearchResponse(q, t) ==
    [status |-> "ok",
     data |-> [i \in 1..Min(t, RemotePageSize) |-> Card(q, i)], total_cards |-> t]
\* A non-success answer (404 for no match, an error object): no "data".
NoDataResponse == [status |-> "nodata", data |-> <<>>, total_cards |-> 0]
Totals == {2, FindWindow + 1, MaxTotal}

\* The provider's answer to a card's prints_search_uri: n variants.
Variant(cid, k) == <<cid, k>>
PrintsResponse(cid, n) == [k \in 1..n |-> Variant(cid, k)]

\* --------------------------------------------------------------- views
TextView(t) == [kind |-> "text", text |-> t]

\* ------------------------------------------------------- track_message
\* a deque made without maxlen
DequeAppendNoEvict(q, x) == Append(q, x)
\* deque(maxlen=MAX_TRACKED_MESSAGES).append(x)
DequeAppend(q, x) ==
    IF Len(q) >= MAX_TRACKED_MESSAGES THEN Append(Tail(q), x) ELSE Append(q, x)

track_message(sm, chat_id, message_id) ==
    Put(sm, chat_id, DequeAppend(Get(sm, chat_id, <<>>), message_id))

\* ---------------------------------------------------------------- world
World ==
    [ud |-> user_data, sm |-> sent_messages, msgs |-> messages,
     nid |-> nextId, hist |-> tracked, out |-> EmptyDict, shown |-> FALSE]

\* The callback data of the buttons a view carries.
Buttons(view) ==
    IF view.kind = "list"
    THEN (IF view.prev THEN {"findprev"} ELSE {}) \cup
         (IF view.next THEN {"findnext"} ELSE {}) \cup
         (IF view.items # <<>> THEN {"findchoose"} ELSE {})
    ELSE IF view.kind = "photo" /\ view.kb = "detail"
    THEN {"toggledetails", "artprev", "artnext"}
    ELSE IF view.kind = "cardtext" THEN {"showimg"}
    ELSE IF view.kind = "suggest" THEN {"namesuggest"}
    ELSE {}

\* message.reply_text / reply_photo: a new message in chat c.  A message
\* keeps, with what it shows, the buttons it ever offered: a callback of a
\* button can be delivered late or twice, after the button went away.
Reply(w, c, view) ==
    [w EXCEPT !.msgs = Put(@, w.nid,
                           [chat |-> c, live |-> TRUE, offered |-> Buttons(view),
                            view |-> view]),
              !.nid = @ + 1,
              !.shown = TRUE]
\* id of the message Reply sent last
Sent(w) == w.nid - 1

Track(w, chat_id, message_id) ==
    [w EXCEPT !.sm = track_message(@, chat_id, message_id),
              !.hist = Put(@, chat_id, Append(Get(@, chat_id, <<>>), message_id))]

\* sent = reply(..); track_message(ctx, c, sent.message_id)
ReplyTracked(w, c, view) ==
    LET w1 == Reply(w, c, view) IN Track(w1, c, Sent(w1))

SetUD(w, u, k, v) == [w EXCEPT !.ud[u] = Put(@, k, v)]

\* error_handler: the dispatcher calls it when a handler raises.
error_handler(w, c) == ReplyTracked(w, c, TextView("internal_error"))

CommitWorld(w, op) ==
    /\ user_data' = w.ud
    /\ sent_messages' = w.sm
    /\ messages' = w.msgs
    /\ nextId' = w.nid
    /\ tracked' = w.hist
    /\ lastOp' = [op EXCEPT !.out = w.out, !.shown = w.shown]

\* a handler run from its first statement to its return
Commit(w, op) ==
    /\ CommitWorld(w, op)
    /\ UNCHANGED <<update_queue, running>>

\* shown: the handler, or error_handler after it, sent or edited a message
Op(name, u, c) ==
    [op |-> name, user |-> u, chat |-> c, out |-> EmptyDict, shown |-> FALSE]
WithOut(w, out) == [w EXCEPT !.out = out]

Init ==
    /\ user_data = [u \in Users |-> EmptyDict]
    /\ sent_messages = EmptyDict
    /\ messages = EmptyDict
    /\ nextId = 1
    /\ tracked = EmptyDict
    /\ lastOp = Op("init", "u1", "A")
    /\ update_queue = <<>>
    /\ running = <<>>

\* ----------------------------------------------------------------- /start
start(w, u, c) == ReplyTracked(w, c, TextView("start"))

Start(u, c) == Commit(start(World, u, c), Op("start", u, c))

\* ------------------------------------------------------------ transport
\* The transport edits or deletes message msg_id of chat chat_id only when
\* that message exists there and was not deleted; else the call raises.
CanEdit(w, chat_id, msg_id) ==
    /\ msg_id \in DOMAIN w.msgs
    /\ w.msgs[msg_id].chat = chat_id
    /\ w.msgs[msg_id].live

EditView(w, msg_id, view) ==
    [w EXCEPT !.msgs[msg_id].view = view,
              !.msgs[msg_id].offered = @ \cup Buttons(view),
              !.shown = TRUE]

\* try: await ctx.bot.delete_message(chat_id, msg_id) / except Exception: pass
delete_message_quiet(w, chat_id, msg_id) ==
    IF CanEdit(w, chat_id, msg_id)
    THEN [w EXCEPT !.msgs[msg_id].live = FALSE]
    ELSE w

\* ------------------------------------------------------- build_collage
\* What a card carries for its thumbnail, as build_collage reads it:
\*   "plain"        image_uris with a small or normal url
\*   "plain_nourl"  image_uris with neither of them
\*   "faces"        no image_uris; card_faces[0] has image_uris with a url
\*   "faces_noimg"  no image_uris; card_faces[0] has no image_uris
\*   "bare"         no image_uris; no card_faces, or an empty list of them
\* and whether fetch_bytes of its url succeeds.
CollageItem(card, shape, fetched) ==
    [card |-> card, shape |-> shape, fetched |-> fetched]
CollageItems(card) ==
    {CollageItem(card, sh, TRUE) :
        sh \in {"plain", "plain_nourl", "faces", "faces_noimg", "bare"}}
    \cup {CollageItem(card, sh, FALSE) : sh \in {"plain", "faces"}}

\* The cards of the handler specifications: the provider gives every one an
\* image_uris with a small url, and the url can be fetched.
Thumbs(cards) == [i \in DOMAIN cards |-> CollageItem(cards[i], "plain", TRUE)]

CollageCells == 6
None == <<>>
\* the thumbnail url of a card
UrlOf(c) == <<"small", c.card>>

\* the loop that fills urls (src/main.py:85-94), over cards[i..]
RECURSIVE collage_urls(_, _, _)
collage_urls(cards, urls, i) ==
    IF i > Len(cards) THEN urls
    ELSE LET c == cards[i] IN
         IF c.shape = "plain" THEN collage_urls(cards, Append(urls, UrlOf(c)), i + 1)
         ELSE IF c.shape = "plain_nourl" THEN collage_urls(cards, Append(urls, None), i + 1)
         ELSE IF c.shape = "faces" THEN collage_urls(cards, Append(urls, UrlOf(c)), i + 1)
         ELSE IF c.shape = "faces_noimg" THEN collage_urls(cards, urls, i + 1)
         ELSE collage_urls(cards, Append(urls, None), i + 1)

\* zip(a, b) stops at the shorter of the two
Zip(a, b) == [i \in 1..Min(Len(a), Len(b)) |-> <<a[i], b[i]>>]

\* The cell a url gives: the thumbnail fetched from it, or the grey
\* rectangle when there is no url or fetch_bytes raises.
Placeholder == [thumb |-> None]
CollageCell(cards, url) ==
    IF url = None THEN Placeholder
    ELSE IF \E j \in DOMAIN cards : UrlOf(cards[j]) = url /\ cards[j].fetched
    THEN [thumb |-> url]
    ELSE Placeholder

\* cells: what is drawn, cell by cell; caption: the lines <<idx, name>>.
build_collage(cards) ==
    LET first == Slice(cards, 0, CollageCells)
        urls == collage_urls(first, <<>>, 1)
        pairs == Zip(first, urls)
    IN  [cells |-> [idx \in DOMAIN pairs |-> CollageCell(first, pairs[idx][2])],
         caption |-> [idx \in DOMAIN pairs |-> <<idx, pairs[idx][1].card>>]]

\* The list render: the name buttons (items), the collage and the nav row,
\* with the query, total and window start the handler rendered it from.
ListView(query, total, first, show_cards, prev, next) ==
    [kind |-> "list", query |-> query, total |-> total, start |-> first,
     items |-> show_cards, collage |-> build_collage(Thumbs(show_cards)),
     prev |-> prev, next |-> next]

\* The single photo of a card: whose text the caption shows and in which
\* mode, the image shown (variant 0 is the card's own image), the keyboard.
PhotoView(card, mode, kb) ==
    [kind |-> "photo", card |-> card, caption |-> [card |-> card, mode |-> mode],
     image |-> Variant(card, 0), kb |-> kb]

\* card.get("prints_search_uri"): the provider gives every card but the
\* even-ranked ones a variants endpoint.
HasPrintsUri(card) == card[2] % 2 = 1

\* ------------------------------------------------------- send_full_image
send_full_image(w, message, chat_id, card, mode, kb) ==
    LET w1 == Reply(w, w.msgs[message].chat, PhotoView(card, mode, kb))
    IN  Track(w1, chat_id, Sent(w1))

\* ------------------------------------------------------------------ /find
\* nav_row of find: both buttons whenever total > 6
FindNav(total) == [prev |-> total > FindWindow, next |-> total > FindWindow]

\* find with the session written before the "if not cards" return
find_store_first(w, u, c, args, resp) ==
    IF args = NoArgs
    THEN ReplyTracked(w, c, TextView("usage_find"))
    ELSE IF resp.status = "raise"
    THEN error_handler(w, c)
    ELSE LET w1 == SetUD(SetUD(SetUD(SetUD(w, u, "query", args[1]),
                          u, "total", resp.total_cards), u, "all_cards", resp.data),
                          u, "page_offset", 0)
         IN  IF resp.data = <<>>
             THEN ReplyTracked(w1, c, TextView("no_results"))
             ELSE LET w2 == Reply(w1, c,
                                  ListView(args[1], resp.total_cards, 0,
                                           Slice(resp.data, 0, FindWindow),
                                           FindNav(resp.total_cards).prev,
                                           FindNav(resp.total_cards).next))
                      w3 == SetUD(SetUD(w2, u, "results_msg_id", Sent(w2)),
                                  u, "results_chat_id", c)
                  IN  Track(w3, c, Sent(w2))

find(w, u, c, args, resp) ==
    IF args = NoArgs
    THEN ReplyTracked(w, c, TextView("usage_find"))
    ELSE IF resp.status = "raise"
    THEN error_handler(w, c)
    ELSE LET query == args[1]
             cards == resp.data
             total == resp.total_cards
         IN  IF cards = <<>>
             THEN ReplyTracked(w, c, TextView("no_results"))
             ELSE LET w1 == SetUD(SetUD(SetUD(SetUD(w, u, "query", query),
                                   u, "total", total), u, "all_cards", cards),
                                   u, "page_offset", 0)
                      show_cards == Slice(cards, 0, FindWindow)
                      nav == FindNav(total)
                      w2 == Reply(w1, c,
                                  ListView(query, total, 0, show_cards, nav.prev, nav.next))
                      w3 == SetUD(SetUD(w2, u, "results_msg_id", Sent(w2)),
                                  u, "results_chat_id", c)
                  IN  Track(w3, c, Sent(w2))

\* What fetch_json gives find: a page of results, no data, or an exception.
NoFetch == [status |-> "none"]
FindArgs == {NoArgs} \cup {<<q>> : q \in Queries}
FindResponses(args) ==
    IF args = NoArgs THEN {NoFetch}
    ELSE {SearchResponse(args[1], t) : t \in Totals}
         \cup {NoDataResponse, [status |-> "raise"]}

Find(u, c, args, resp) ==
    Commit(find(World, u, c, args, resp), Op("find", u, c))

\* ------------------------------------------------------ handle_find_choice
\* findnext: page_offset + 1
NextOffset(ud) == Get(ud, "page_offset", 0) + 1
\* findprev: max(0, page_offset - 1)
PrevOffset(ud) == Max(0, Get(ud, "page_offset", 0) - 1)

\* The pagination branches after page_offset was set (src/main.py:296-317).
render_page(w, u, cm, chat_id, msg_id) ==
    LET ud == w.ud[u] IN
    IF "total" \notin DOMAIN ud \/ "all_cards" \notin DOMAIN ud
    THEN error_handler(w, cm)       \* KeyError
    ELSE LET total == ud["total"]
             all_cards == ud["all_cards"]
             page_offset == Get(ud, "page_offset", 0)
             first == page_offset * page_size
             end == Min(first + page_size, total)
             show_cards == Slice(all_cards, first, end)
             view == ListView(ud["query"], total, first, show_cards,
                              page_offset > 0, end < total)
         IN  IF CanEdit(w, chat_id, msg_id)
             THEN EditView(w, msg_id, view)
             ELSE error_handler(w, cm)   \* edit_message_media raises

choose_card(w, u, m, cm, chat_id, msg_id, cid, presp) ==
    LET ud == w.ud[u] IN
    IF "all_cards" \notin DOMAIN ud
    THEN error_handler(w, cm)       \* KeyError
    ELSE IF cid \notin Range(ud["all_cards"])
    THEN IF CanEdit(w, cm, m)
         THEN EditView(w, m, TextView("could_not_find"))
         ELSE error_handler(w, cm)
    ELSE LET w1 == SetUD(SetUD(w, u, "selected_card_id", cid), u, "show_details", FALSE)
         IN  IF HasPrintsUri(cid) /\ presp.status = "raise"
             THEN error_handler(w1, cm)
             ELSE LET prints == IF HasPrintsUri(cid) THEN presp.data ELSE <<>>
                      w2 == SetUD(SetUD(w1, u, "prints", prints), u, "print_index", 0)
                      w3 == delete_message_quiet(w2, chat_id, msg_id)
                  IN  send_full_image(w3, m, chat_id, cid, "name", "detail")

handle_find_choice(w, u, m, data, cid, presp) ==
    LET cm == w.msgs[m].chat
        chat_id == Get(w.ud[u], "results_chat_id", cm)
        msg_id == Get(w.ud[u], "results_msg_id", m)
    IN  IF data = "findnext"
        THEN render_page(SetUD(w, u, "page_offset", NextOffset(w.ud[u])),
                         u, cm, chat_id, msg_id)
        ELSE IF data = "findprev"
        THEN render_page(SetUD(w, u, "page_offset", PrevOffset(w.ud[u])),
                         u, cm, chat_id, msg_id)
        ELSE choose_card(w, u, m, cm, chat_id, msg_id, cid, presp)

\* What fetch_json gives for a card's prints_search_uri.
PrintsResponses(cid) ==
    IF HasPrintsUri(cid)
    THEN {[status |-> "ok", data |-> PrintsResponse(cid, n)] : n \in 0..MaxPrints}
         \cup {[status |-> "raise"]}
    ELSE {NoFetch}

\* A button is pressed, or its callback is delivered late or twice: the
\* message need not show the button, or exist, any more.
Offering(data) == {m \in DOMAIN messages : data \in messages[m].offered}

FindNext(u, m) ==
    /\ m \in Offering("findnext")
    /\ Get(user_data[u], "page_offset", 0) < MaxPageOffset
    /\ Commit(handle_find_choice(World, u, m, "findnext", NoCard, NoFetch),
              Op("findnext", u, messages[m].chat))

FindPrev(u, m) ==
    /\ m \in Offering("findprev")
    /\ Commit(handle_find_choice(World, u, m, "findprev", NoCard, NoFetch),
              Op("findprev", u, messages[m].chat))

\* The name buttons pressed are among the first MaxChoice of the window.
ChoiceIds(m) ==
    IF m \in Offering("findchoose") /\ messages[m].view.kind = "list"
    THEN Range(Slice(messages[m].view.items, 0, MaxChoice))
    ELSE {}

\* update.callback_query of a findchoose:<id> or showimg:<id> button: the
\* message that carries the button and the id in its data
Delivered(m, cid) == [msg |-> m, cid |-> cid]

FindChoose(u, m, cid, presp) ==
    /\ cid \in ChoiceIds(m)
    /\ presp \in PrintsResponses(cid)
    /\ Commit(WithOut(handle_find_choice(World, u, m, "findchoose", cid, presp),
                      Delivered(m, cid)),
              Op("findchoose", u, messages[m].chat))

\* ---------------------------------------------------------------- /search
\* The text of one card with the "show image" button under it.
CardTextView(card) ==
    [kind |-> "cardtext", card |-> card, caption |-> [card |-> card, mode |-> "full"],
     kb |-> "showimg"]

\* The card /cards/named?fuzzy=name resolves a name to.
NamedCard(name) == Card(name, 1)

search(w, u, c, args, resp) ==
    IF args = NoArgs
    THEN ReplyTracked(w, c, TextView("usage_search"))
    ELSE LET name == args[1]
             w1 == Reply(w, c, TextView("working"))
             w2 == SetUD(SetUD(w1, u, "results_msg_id", Sent(w1)),
                         u, "results_chat_id", c)
             w3 == Track(w2, c, Sent(w1))
         IN  IF resp.status = "raise"
             THEN error_handler(w3, c)
             ELSE IF resp.status = "ok"
             THEN EditView(SetUD(w3, u, "last_card", NamedCard(name)),
                           Sent(w1), CardTextView(NamedCard(name)))
             ELSE IF resp.suggestions = <<>>
             THEN EditView(w3, Sent(w1), TextView("no_results_for_name"))
             ELSE EditView(w3, Sent(w1),
                           [kind |-> "suggest", names |-> resp.suggestions])

\* What the two fetch_json calls of search give: the card, an exception, or
\* no match followed by the autocomplete's suggestions.
SearchResponses(args) ==
    IF args = NoArgs THEN {NoFetch}
    ELSE {[status |-> "ok"], [status |-> "raise"],
          [status |-> "nomatch", suggestions |-> <<>>],
          [status |-> "nomatch", suggestions |-> <<args[1]>>]}

Search(u, c, args, resp) ==
    Commit(search(World, u, c, args, resp), Op("search", u, c))

\* ------------------------------------------------------ handle_show_image
handle_show_image(w, u, m, cid) ==
    LET cm == w.msgs[m].chat
        ud == w.ud[u]
        chat_id == Get(ud, "results_chat_id", cm)
        msg_id == Get(ud, "results_msg_id", m)
        found == "all_cards" \in DOMAIN ud /\ cid \in Range(ud["all_cards"])
    IN  IF ~found /\ "last_card" \notin DOMAIN ud
        THEN IF CanEdit(w, cm, m)
             THEN EditView(w, m, TextView("could_not_load"))
             ELSE error_handler(w, cm)
        ELSE LET card == IF found THEN cid ELSE ud["last_card"]
                 w1 == delete_message_quiet(w, chat_id, msg_id)
             IN  send_full_image(w1, m, chat_id, card, "full", "links")

\* The id in the data of the "show image" button of message m.
ShowImgIds(m) ==
    IF m \in Offering("showimg") /\ messages[m].view.kind = "cardtext"
    THEN {messages[m].view.card}
    ELSE {}

ShowImage(u, m, cid) ==
    /\ cid \in ShowImgIds(m)
    /\ Commit(WithOut(handle_show_image(World, u, m, cid), Delivered(m, cid)),
              Op("showimg", u, messages[m].chat))

\* -------------------------------------------------- handle_toggle_details
handle_toggle_details(w, u, m) ==
    LET cm == w.msgs[m].chat
        w1 == SetUD(w, u, "show_details", ~Get(w.ud[u], "show_details", FALSE))
    IN  IF "last_card" \notin DOMAIN w1.ud[u]
        THEN Reply(w1, cm, TextView("no_card_selected"))
        ELSE LET card == w1.ud[u]["last_card"]
                 mode == IF w1.ud[u]["show_details"] THEN "full" ELSE "name"
             IN  IF CanEdit(w1, cm, m)
                 THEN [w1 EXCEPT !.msgs[m].view.caption = [card |-> card, mode |-> mode],
                                 !.shown = TRUE]
                 ELSE error_handler(w1, cm)  \* edit_caption and edit_text raise

ToggleDetails(u, m) ==
    /\ m \in Offering("toggledetails")
    /\ Commit(handle_toggle_details(World, u, m),
              Op("toggledetails", u, messages[m].chat))

\* ---------------------------------------------------------- handle_art_nav
\* (print_index + delta) % len(prints)
ArtIndex(idx, delta, n) == PyMod(idx + delta, n)

\* handle_art_nav without the "if not prints" return: the step is taken on
\* an empty list as well
handle_art_nav_unguarded(w, u, m, direction) ==
    LET delta == IF direction = "artprev" THEN -1 ELSE 1
        before == Get(w.ud[u], "print_index", 0)
    IN  WithOut(SetUD(w, u, "print_index", before + delta),
                [notice |-> "none", before |-> before])

handle_art_nav(w, u, m, direction) ==
    LET cm == w.msgs[m].chat
        delta == IF direction = "artprev" THEN -1 ELSE 1
        prints == Get(w.ud[u], "prints", <<>>)
        before == Get(w.ud[u], "print_index", 0)
    IN  IF prints = <<>>
        THEN WithOut(w, [notice |-> "no_alternate_arts", before |-> before])
        ELSE LET idx == ArtIndex(Get(w.ud[u], "print_index", 0), delta, Len(prints))
                 w1 == SetUD(w, u, "print_index", idx)
                 p == prints[idx + 1]
             IN  IF CanEdit(w1, cm, m)
                 THEN WithOut([w1 EXCEPT !.msgs[m].view.image = p, !.shown = TRUE],
                              [notice |-> "none", before |-> before])
                 ELSE WithOut(w1, [notice |-> "none", before |-> before])
                      \* edit_media raised: logged, nothing else

ArtNav(u, m, direction) ==
    /\ m \in Offering(direction)
    /\ Commit(handle_art_nav(World, u, m, direction),
              Op(direction, u, messages[m].chat))

\* ----------------------------------------------------------------- /cleanup
\* the loop with the try around it instead of in it: the first delete that
\* raises ends the batch
RECURSIVE CleanupLoopAbort(_, _, _, _, _)
CleanupLoopAbort(r, chat_id, ids, refused, i) ==
    IF i > Len(ids) THEN r
    ELSE LET id == ids[i]
             ok == id \notin refused /\ id \in DOMAIN r.msgs
                   /\ r.msgs[id].chat = chat_id /\ r.msgs[id].live
         IN  IF ok
             THEN CleanupLoopAbort(
                      [msgs |-> [r.msgs EXCEPT ![id].live = FALSE],
                       attempted |-> Append(r.attempted, id),
                       deleted |-> r.deleted + 1],
                      chat_id, ids, refused, i + 1)
             ELSE [r EXCEPT !.attempted = Append(@, id)]

\* The delete loop of cleanup over ids[i..]: refused holds the ids whose
\* delete the transport refuses (too old, no permission); a delete of a
\* message that is gone raises as well.  An exception is logged and the loop
\* goes on.  r = [msgs, attempted, deleted].
RECURSIVE CleanupLoop(_, _, _, _, _)
CleanupLoop(r, chat_id, ids, refused, i) ==
    IF i > Len(ids) THEN r
    ELSE LET id == ids[i]
             ok == id \notin refused /\ id \in DOMAIN r.msgs
                   /\ r.msgs[id].chat = chat_id /\ r.msgs[id].live
         IN  CleanupLoop(
                 [msgs |-> IF ok THEN [r.msgs EXCEPT ![id].live = FALSE] ELSE r.msgs,
                  attempted |-> Append(r.attempted, id),
                  deleted |-> IF ok THEN r.deleted + 1 ELSE r.deleted],
                 chat_id, ids, refused, i + 1)

\* count = int(args[0]) if args and args[0].isdigit() else 15
CleanupCount(args) == IF args = NoArgs THEN DefaultCount ELSE args[1]

\* list(sent_messages.get(chat_id, []))[-count:]
SelectLast(sm, chat_id, count) == LastSlice(Get(sm, chat_id, <<>>), count)

cleanup(w, u, c, args, refused) ==
    LET count == CleanupCount(args)
        w1 == ReplyTracked(w, c, TextView("cleaning"))
        selected == SelectLast(w1.sm, c, count)
        r == CleanupLoop([msgs |-> w1.msgs, attempted |-> <<>>, deleted |-> 0],
                         c, selected, refused, 1)
        w2 == [w1 EXCEPT !.msgs = r.msgs]
        w3 == ReplyTracked(w2, c,
                           [kind |-> "cleanup_done", deleted |-> r.deleted])
    IN  WithOut(w3, [count |-> count, log |-> Get(w1.sm, c, <<>>),
                     selected |-> selected,
                     attempted |-> r.attempted,
                     gone |-> {id \in Range(r.attempted) :
                                  w1.msgs[id].live /\ ~r.msgs[id].live},
                     done |-> Sent(w3)])

CleanupArgs == {NoArgs} \cup {<<n>> : n \in 0..MaxCount}

Cleanup(u, c, args, refused) ==
    /\ refused \subseteq DOMAIN messages \cup {nextId}
    /\ Commit(cleanup(World, u, c, args, refused), Op("cleanup", u, c))

\* --------------------------------------------------------- specifications
\* The transport hands out at most MaxMsgs message ids.
Room == nextId' <= MaxMsgs + 1

\* Every handler, the users in `users` talking to the bot in `chats`.
Step(users, chats) ==
    \/ \E u \in users, c \in chats : Start(u, c) /\ Room
    \/ \E u \in users, c \in chats, args \in FindArgs :
          \E resp \in FindResponses(args) : Find(u, c, args, resp) /\ Room
    \/ \E u \in users, m \in 1..MaxMsgs : FindNext(u, m) /\ Room
    \/ \E u \in users, m \in 1..MaxMsgs : FindPrev(u, m) /\ Room
    \/ \E u \in users, m \in 1..MaxMsgs :
          \E cid \in ChoiceIds(m) : \E presp \in PrintsResponses(cid) :
              FindChoose(u, m, cid, presp) /\ Room
    \/ \E u \in users, c \in chats, args \in FindArgs :
          \E resp \in SearchResponses(args) : Search(u, c, args, resp) /\ Room
    \/ \E u \in users, m \in 1..MaxMsgs :
          \E cid \in ShowImgIds(m) : ShowImage(u, m, cid) /\ Room
    \/ \E u \in users, m \in 1..MaxMsgs : ToggleDetails(u, m) /\ Room
    \/ \E u \in users, m \in 1..MaxMsgs, d \in {"artprev", "artnext"} :
          ArtNav(u, m, d) /\ Room
    \/ /\ nextId < MaxMsgs      \* cleanup sends two messages
       /\ \E u \in users, c \in chats, args \in CleanupArgs :
             \E refused \in SUBSET (1..nextId) : Cleanup(u, c, args, refused) /\ Room

Next == Step({"u1"}, {"A"})

Spec == Init /\ [][Next]_vars

\* The session store with one user in two chats and a second user: queries
\* that are answered, paging and choosing.
RoomChats == nextId' <= MaxMsgsChats + 1

NextChats ==
    \/ \E u \in Users, c \in Chats, q \in Queries, t \in Totals :
          Find(u, c, <<q>>, SearchResponse(q, t)) /\ RoomChats
    \/ \E u \in Users, m \in 1..MaxMsgsChats : FindNext(u, m) /\ RoomChats
    \/ \E u \in Users, m \in 1..MaxMsgsChats : FindPrev(u, m) /\ RoomChats
    \/ \E u \in Users, m \in 1..MaxMsgsChats :
          \E cid \in ChoiceIds(m) : \E presp \in PrintsResponses(cid) :
              FindChoose(u, m, cid, presp) /\ RoomChats

SpecChats == Init /\ [][NextChats]_vars

\* The message lifecycle tracker in two chats: messages are sent, replaced
\* by a detail photo, and cleaned up.
RoomCleanup == nextId' <= MaxMsgsCleanup + 1

NextCleanup ==
    \/ \E c \in Chats : Start("u1", c) /\ RoomCleanup
    \/ \E c \in Chats :
          Find("u1", c, <<1>>, SearchResponse(1, FindWindow + 1)) /\ RoomCleanup
    \/ \E m \in 1..MaxMsgsCleanup :
          FindChoose("u1", m, Card(1, 2), NoFetch) /\ RoomCleanup
    \/ /\ nextId < MaxMsgsCleanup      \* cleanup sends two messages
       /\ \E c \in Chats, args \in CleanupArgs :
             \E refused \in SUBSET (1..nextId) : Cleanup("u1", c, args, refused) /\ RoomCleanup

SpecCleanup == Init /\ [][NextCleanup]_vars

\* The message log filled past its capacity: chat A until MaxEvict ids were
\* evicted, chat B with some of the first ids.
NextTrack ==
    \/ /\ Len(Get(tracked, "A", <<>>)) < MAX_TRACKED_MESSAGES + MaxEvict
       /\ Start("u1", "A")
    \/ /\ nextId <= MaxEvict
       /\ Start("u1", "B")

SpecTrack == Init /\ [][NextTrack]_vars

\* The detail view: one answered query, its items chosen (with every answer
\* of the variants endpoint), the variants stepped through, the chat cleaned
\* up.
RoomDetail == nextId' <= MaxMsgsDetail + 1

NextDetail ==
    \/ Find("u1", "A", <<1>>, SearchResponse(1, 2)) /\ RoomDetail
    \/ \E m \in 1..MaxMsgsDetail :
          \E cid \in ChoiceIds(m) : \E presp \in PrintsResponses(cid) :
              FindChoose("u1", m, cid, presp) /\ RoomDetail
    \/ \E m \in 1..MaxMsgsDetail, d \in {"artprev", "artnext"} :
          ArtNav("u1", m, d) /\ RoomDetail
    \/ /\ nextId < MaxMsgsDetail      \* cleanup sends two messages
       /\ \E args \in CleanupArgs : Cleanup("u1", "A", args, {}) /\ RoomDetail

SpecDetail == Init /\ [][NextDetail]_vars

\* The query: /find with every argument and every answer of the provider,
\* and paging through the list.
RoomQuery == nextId' <= MaxMsgsQuery + 1

NextQuery ==
    \/ \E args \in FindArgs : \E resp \in FindResponses(args) :
          Find("u1", "A", args, resp) /\ RoomQuery
    \/ \E m \in 1..MaxMsgsQuery : FindNext("u1", m) /\ RoomQuery
    \/ \E m \in 1..MaxMsgsQuery : FindPrev("u1", m) /\ RoomQuery

SpecQuery == Init /\ [][NextQuery]_vars

\* ------------------------------------------ the dispatcher, await by await
\* ApplicationBuilder().concurrent_updates(True): a task per update
DispatchableConcurrent == TRUE
\* The application is built without concurrent_updates and the handlers are
\* registered blocking (src/main.py:565-575): the update fetcher awaits the
\* handler of one update before it takes the next one from the queue.
Dispatchable == running = <<>>

\* findnext/findprev up to "await build_collage(show_cards)": the offset is
\* written and total, all_cards, page_offset, start, end and show_cards are
\* locals of the suspended handler (src/main.py:255-304).
nav_begin(w, u, m, data) ==
    LET cm == w.msgs[m].chat
        chat_id == Get(w.ud[u], "results_chat_id", cm)
        msg_id == Get(w.ud[u], "results_msg_id", m)
        w1 == SetUD(w, u, "page_offset",
                    IF data = "findnext" THEN NextOffset(w.ud[u])
                    ELSE PrevOffset(w.ud[u]))
        ud == w1.ud[u]
    IN  IF "total" \notin DOMAIN ud \/ "all_cards" \notin DOMAIN ud
        THEN [w |-> error_handler(w1, cm), raised |-> TRUE, frame |-> EmptyDict]
        ELSE LET total == ud["total"]
                 page_offset == Get(ud, "page_offset", 0)
                 first == page_offset * page_size
                 end == Min(first + page_size, total)
                 show_cards == Slice(ud["all_cards"], first, end)
             IN  [w |-> w1, raised |-> FALSE,
                  frame |-> [user |-> u, cm |-> cm, chat_id |-> chat_id,
                             msg_id |-> msg_id,
                             view |-> ListView(ud["query"], total, first, show_cards,
                                               page_offset > 0, end < total)]]

\* the rest of the handler, from the collage to edit_message_media and
\* edit_message_caption (src/main.py:304-317), on the locals of frame f
nav_commit(w, f) ==
    IF CanEdit(w, f.chat_id, f.msg_id)
    THEN EditView(w, f.msg_id, f.view)
    ELSE error_handler(w, f.cm)

\* A pagination callback is put on the update queue.  overlapped: a handler
\* was suspended at that moment.
Arrive(u, m, data) ==
    /\ m \in Offering(data)
    /\ Len(update_queue) < MaxPending
    /\ data = "findnext" =>
          Get(user_data[u], "page_offset", 0) + Len(update_queue) < MaxPageOffset
    /\ update_queue' = Append(update_queue,
                              [user |-> u, msg |-> m, data |-> data,
                               overlapped |-> running # <<>>])
    /\ UNCHANGED <<user_data, sent_messages, messages, nextId, tracked, lastOp,
                   running>>

\* The update fetcher takes the next update and its handler runs up to the
\* await.
Dispatch ==
    /\ update_queue # <<>>
    /\ Dispatchable
    /\ LET up == Head(update_queue)
           r == nav_begin(World, up.user, up.msg, up.data)
       IN  /\ update_queue' = Tail(update_queue)
           /\ running' = IF r.raised THEN running
                         ELSE Append(running,
                                     [frame |-> r.frame, overlapped |-> up.overlapped])
           /\ CommitWorld(r.w, Op("nav_begin", up.user, messages[up.msg].chat))

\* A suspended handler is resumed and runs to its end.
Resume(i) ==
    /\ i \in DOMAIN running
    /\ running' = [j \in 1..(Len(running) - 1) |->
                       IF j < i THEN running[j] ELSE running[j + 1]]
    /\ UNCHANGED update_queue
    /\ CommitWorld(WithOut(nav_commit(World, running[i].frame),
                           [overlapped |-> running[i].overlapped]),
                   Op("nav_commit", running[i].frame.user, running[i].frame.cm))

RoomOverlap == nextId' <= MaxMsgsOverlap + 1

NextOverlap ==
    \/ /\ update_queue = <<>>
       /\ Dispatchable
       /\ Find("u1", "A", <<1>>, SearchResponse(1, MaxTotal))
       /\ RoomOverlap
    \/ \E m \in 1..MaxMsgsOverlap, data \in {"findnext", "findprev"} :
          Arrive("u1", m, data)
    \/ Dispatch /\ RoomOverlap
    \/ \E i \in 1..MaxPending : Resume(i) /\ RoomOverlap

SpecOverlap == Init /\ [][NextOverlap]_vars

\* ------------------------------------------------------------ inline_query
\* update.inline_query.query that is empty after strip()
NoQuery == 0
\* update.inline_query.offset: "" is <<>>, str(n) is <<n>>
EmptyOffset == <<>>
\* int(offset) if offset else 1
PageOf(offset) == IF offset = EmptyOffset THEN 1 ELSE offset[1]

\* The provider's answer to /cards/search?q=..&page=..: the cards of that
\* page of the t results, and whether pages follow.
InlineResponse(q, t, page) ==
    LET lo == (page - 1) * InlinePageSize
        hi == Min(page * InlinePageSize, t)
    IN  [status |-> "ok",
         data |-> [i \in 1..Max(0, hi - lo) |-> Card(q, lo + i)],
         has_more |-> page * InlinePageSize < t]

\* What the handler answers: the results and next_offset.
inline_query(q, offset, resp) ==
    IF q = NoQuery
    THEN [results |-> <<>>, next_offset |-> EmptyOffset, has_more |-> FALSE]
    ELSE LET page == PageOf(offset)
             data == IF resp.status = "raise"
                     THEN [data |-> <<>>, has_more |-> FALSE]
                     ELSE resp
             cards == Slice(data.data, 0, InlineCap)
         IN  [results |-> cards,
              next_offset |-> IF data.has_more THEN <<page + 1>> ELSE EmptyOffset,
              has_more |-> data.has_more]

\* The client asks for the first page of a query with t results, and then
\* for the page each next_offset names; lastOp keeps what was presented.
InlineAnswer(q, t, offset, resp, presented, failed) ==
    LET a == inline_query(q, offset, resp) IN
    /\ lastOp' = [Op("inline", "u1", "A") EXCEPT
                     !.out = [query |-> q, total |-> t,
                              next_offset |-> a.next_offset,
                              has_more |-> a.has_more,
                              presented |-> presented \o a.results,
                              failed |-> failed \/ resp.status = "raise"]]
    /\ UNCHANGED <<user_data, sent_messages, messages, nextId, tracked,
                   update_queue, running>>

InlineResponses(q, t, offset) ==
    IF q = NoQuery THEN {NoFetch}
    ELSE {InlineResponse(q, t, PageOf(offset)), [status |-> "raise"]}

InlineFirst(q, t) ==
    /\ lastOp.op = "init"
    /\ \E resp \in InlineResponses(q, t, EmptyOffset) :
          InlineAnswer(q, t, EmptyOffset, resp, <<>>, FALSE)

InlineMore ==
    /\ lastOp.op = "inline"
    /\ lastOp.out.next_offset # EmptyOffset
    /\ \E resp \in InlineResponses(lastOp.out.query, lastOp.out.total,
                                    lastOp.out.next_offset) :
          InlineAnswer(lastOp.out.query, lastOp.out.total, lastOp.out.next_offset,
                       resp, lastOp.out.presented, lastOp.out.failed)

InlineTotals == 0..(2 * InlinePageSize + 1)

NextInline ==
    \/ \E q \in Queries \cup {NoQuery}, t \in InlineTotals : InlineFirst(q, t)
    \/ InlineMore

SpecInline == Init /\ [][NextInline]_vars

\* The collage renderer on its own: build_collage applied to every list of
\* up to MaxItems cards of every shape, with every outcome of the fetches.
RECURSIVE CollageInputs(_)
CollageInputs(k) ==
    IF k = 0 THEN {<<>>}
    ELSE LET shorter == CollageInputs(k - 1) IN
         shorter \cup {Append(cs, it) : cs \in {x \in shorter : Len(x) = k - 1},
                                       it \in CollageItems(Card(1, k))}

InitCollage ==
    /\ user_data = [u \in Users |-> EmptyDict]
    /\ sent_messages = EmptyDict
    /\ messages = EmptyDict
    /\ nextId = 1
    /\ tracked = EmptyDict
    /\ \E cards \in CollageInputs(MaxItems) :
          lastOp = [Op("input", "u1", "A") EXCEPT !.out = [cards |-> cards]]
    /\ update_queue = <<>>
    /\ running = <<>>

BuildCollage ==
    /\ lastOp.op = "input"
    /\ lastOp' = [lastOp EXCEPT !.op = "build_collage",
                                !.out = [cards |-> lastOp.out.cards,
                                         result |-> build_collage(lastOp.out.cards)]]
    /\ UNCHANGED <<user_data, sent_messages, messages, nextId, tracked,
                   update_queue, running>>

NextCollage == BuildCollage

SpecCollage == InitCollage /\ [][NextCollage]_vars

\* ------------------------------------------------------------------ claims
\* The n most recent entries of a log, oldest first.
MostRecent(h, n) ==
    LET k == Min(n, Len(h)) IN [i \in 1..k |-> h[Len(h) - k + i]]

\* C1: after a successful /find and any findnext/findprev callbacks, the
\* start of the displayed window, page_offset * 6, is at least 0 and at most
\* max(0, total - 6).
C1_OffsetSaturates ==
    \A u \in Users :
        "total" \in DOMAIN user_data[u] =>
            LET first == Get(user_data[u], "page_offset", 0) * page_size
            IN  /\ first >= 0
                /\ first <= Max(0, user_data[u]["total"] - page_size)

\* C2: every list render shows exactly the provider's results at the ranks
\* [start, min(start + 6, total)) of the query, also beyond the first remote
\* page.
WindowOf(q, total, first) ==
    [i \in 1..Max(0, Min(first + page_size, total) - first) |-> Card(q, first + i)]

C2_RenderShowsWindow ==
    \A m \in DOMAIN messages :
        messages[m].view.kind = "list" =>
            messages[m].view.items =
                WindowOf(messages[m].view.query, messages[m].view.total,
                         messages[m].view.start)

\* C3: a /find that is answered with results while the detail photo of an
\* earlier selection is in the chat leaves nothing of that selection in the
\* session: selected_card_id, prints, print_index and show_details are gone.
FindRendered ==
    /\ lastOp.op = "find"
    /\ nextId - 1 \in DOMAIN messages
    /\ messages[nextId - 1].view.kind = "list"

DetailShown ==
    \E m \in DOMAIN messages :
        /\ messages[m].view.kind = "photo"
        /\ messages[m].view.kb = "detail"
        /\ messages[m].live

C3_NewQueryDiscardsDetail ==
    (FindRendered /\ DetailShown) =>
        DOMAIN user_data[lastOp.user]
            \cap {"selected_card_id", "prints", "print_index", "show_details"} = {}

\* C4: every list render, the first one of /find included, has a Prev control
\* exactly when its window starts after 0 and a Next control exactly when
\* results remain after its window.
C4_NavControlsMatchWindow ==
    \A m \in DOMAIN messages :
        messages[m].view.kind = "list" =>
            LET v == messages[m].view IN
            /\ v.prev <=> (v.start > 0)
            /\ v.next <=> (Min(v.start + page_size, v.total) < v.total)

\* C5: a chat's message log never holds more than MAX_TRACKED_MESSAGES ids,
\* and it holds the most recent ones of all the ids tracked for the chat, in
\* arrival order.
C5_LogHoldsMostRecent ==
    \A c \in DOMAIN tracked :
        LET log == Get(sent_messages, c, <<>>) IN
        /\ Len(log) <= MAX_TRACKED_MESSAGES
        /\ log = MostRecent(tracked[c], MAX_TRACKED_MESSAGES)

C5_Evicted ==
    \E c \in DOMAIN tracked :
        /\ Len(tracked[c]) = MAX_TRACKED_MESSAGES + MaxEvict
        /\ Len(sent_messages[c]) = MAX_TRACKED_MESSAGES
        /\ sent_messages[c][1] # tracked[c][1]

\* C6: /cleanup n attempts its deletions on the n most recently tracked ids
\* of the chat (all of them when fewer are tracked), for every n >= 0, and on
\* no more than n ids.
C6_CleanupSelectsLastN ==
    lastOp.op = "cleanup" =>
        /\ lastOp.out.attempted = MostRecent(lastOp.out.log, lastOp.out.count)
        /\ Len(lastOp.out.attempted) <= lastOp.out.count

\* C7: /cleanup attempts a delete on every id it selected, whatever failed
\* before, and the count it reports is the number of messages it deleted.
C7_CleanupCountsSuccesses ==
    lastOp.op = "cleanup" =>
        /\ lastOp.out.attempted = lastOp.out.selected
        /\ messages[lastOp.out.done].view.kind = "cleanup_done"
        /\ messages[lastOp.out.done].view.deleted = Cardinality(lastOp.out.gone)

\* a delete failed and a later one of the same batch succeeded
C7_FailureThenSuccess ==
    /\ lastOp.op = "cleanup"
    /\ \E i, j \in DOMAIN lastOp.out.attempted :
          /\ i < j
          /\ lastOp.out.attempted[i] \notin lastOp.out.gone
          /\ lastOp.out.attempted[j] \in lastOp.out.gone
    /\ messages[lastOp.out.done].view.deleted >= 1

\* C8: every message the bot sent into a chat was given to track_message for
\* that chat.
C8_EverySentMessageTracked ==
    \A m \in DOMAIN messages :
        m \in Range(Get(tracked, messages[m].chat, <<>>))

\* C9: an interaction handled in one chat changes nothing of the session
\* that serves a user in another chat.
SessionFields ==
    {"query", "total", "all_cards", "page_offset", "selected_card_id",
     "prints", "results_msg_id"}
SessionOf(d) == [k \in SessionFields \cap DOMAIN d |-> d[k]]

C9_ChatIsolation ==
    [][\A u \in Users :
          ("results_chat_id" \in DOMAIN user_data[u]
              /\ lastOp'.chat # user_data[u]["results_chat_id"])
          => SessionOf(user_data'[u]) = SessionOf(user_data[u])]_vars

\* C10: artprev at the first variant and artnext at the last one leave
\* print_index where it is.
C10_ArtNavSaturates ==
    (lastOp.op \in {"artprev", "artnext"} /\ lastOp.out.notice = "none") =>
        LET d == user_data[lastOp.user]
            n == Len(d["prints"])
        IN  /\ (lastOp.op = "artprev" /\ lastOp.out.before = 0) => d["print_index"] = 0
            /\ (lastOp.op = "artnext" /\ lastOp.out.before = n - 1)
                   => d["print_index"] = n - 1

\* C11: while the selection of the session is an item without a variants
\* endpoint, an artprev/artnext callback is answered with the "no alternate
\* arts" notice and changes nothing: prints, print_index, selected_card_id
\* and every message, the detail photo included, stay as they were.
C11_NoVariantsNoChange ==
    [][(/\ lastOp'.op \in {"artprev", "artnext"}
        /\ "selected_card_id" \in DOMAIN user_data[lastOp'.user]
        /\ ~HasPrintsUri(user_data[lastOp'.user]["selected_card_id"]))
       => /\ lastOp'.out.notice = "no_alternate_arts"
          /\ user_data' = user_data
          /\ messages' = messages]_vars

\* an art callback was answered on the live detail photo of such an item
C11_NoticeOnDetail ==
    /\ lastOp.op \in {"artprev", "artnext"}
    /\ lastOp.out.notice = "no_alternate_arts"
    /\ "selected_card_id" \in DOMAIN user_data[lastOp.user]
    /\ ~HasPrintsUri(user_data[lastOp.user]["selected_card_id"])
    /\ \E m \in DOMAIN messages :
          /\ messages[m].live
          /\ messages[m].view.kind = "photo"
          /\ messages[m].view.card = user_data[lastOp.user]["selected_card_id"]

\* C12: a /find whose provider call gives no data, or raises, leaves the
\* query, total, all_cards and page_offset of the session as they were.
QueryFields == {"query", "total", "all_cards", "page_offset"}
QueryOf(d) == [k \in QueryFields \cap DOMAIN d |-> d[k]]

\* the last message sent is the text t
LastSentText(msgs, nid, t) ==
    /\ nid - 1 \in DOMAIN msgs
    /\ msgs[nid - 1].view = TextView(t)

C12_FailedFindKeepsQuery ==
    [][(/\ lastOp'.op = "find"
        /\ \/ LastSentText(messages', nextId', "no_results")
           \/ LastSentText(messages', nextId', "internal_error"))
       => \A u \in Users : QueryOf(user_data'[u]) = QueryOf(user_data[u])]_vars

\* a /find found nothing while the session was on a later page of an
\* earlier query
C12_NoResultsAfterPaging ==
    /\ lastOp.op = "find"
    /\ LastSentText(messages, nextId, "no_results")
    /\ "query" \in DOMAIN user_data[lastOp.user]
    /\ Get(user_data[lastOp.user], "page_offset", 0) > 0

\* C13: a findchoose whose fetch of the variants raises leaves the session
\* as it was before the callback: selected_card_id, show_details, prints and
\* print_index are unchanged.
DetailFields == {"selected_card_id", "show_details", "prints", "print_index"}
DetailOf(d) == [k \in DetailFields \cap DOMAIN d |-> d[k]]

C13_FailedChooseKeepsDetail ==
    [][(/\ lastOp'.op = "findchoose"
        /\ LastSentText(messages', nextId', "internal_error"))
       => DetailOf(user_data'[lastOp'.user]) = DetailOf(user_data[lastOp'.user])]_vars

\* C14: every command and every callback ends with a message sent or edited
\* (a view or an error text) or with a notice answered to the callback;
\* none ends with nothing shown to the user.
C14_NothingEndsSilently ==
    lastOp.op # "init" =>
        \/ lastOp.shown
        \/ /\ "notice" \in DOMAIN lastOp.out
           /\ lastOp.out.notice # "none"

\* C15: for up to 6 cards, whatever urls are missing and whatever fetches
\* fail, build_collage returns its image and caption with one cell per card,
\* and the placeholder in the cell of every card whose thumbnail could not
\* be obtained.
Obtained(c) == c.shape \in {"plain", "faces"} /\ c.fetched

C15_PlaceholderWhereNoThumbnail ==
    lastOp.op = "build_collage" =>
        LET cards == lastOp.out.cards
            r == lastOp.out.result
        IN  /\ DOMAIN r.cells = DOMAIN cards
            /\ \A i \in DOMAIN cards :
                  ~Obtained(cards[i]) => r.cells[i] = Placeholder

\* C16: for k <= 6 cards, build_collage gives exactly k caption lines,
\* numbered 1..k with the cards' names in input order, and cell i shows
\* the thumbnail of card i or the placeholder.
C16_CellsMatchItems ==
    lastOp.op = "build_collage" =>
        LET cards == lastOp.out.cards
            r == lastOp.out.result
        IN  /\ Len(r.caption) = Len(cards)
            /\ \A i \in DOMAIN r.caption : r.caption[i] = <<i, cards[i].card>>
            /\ Len(r.cells) = Len(cards)
            /\ \A i \in DOMAIN r.cells :
                  r.cells[i] \in {Placeholder, [thumb |-> UrlOf(cards[i])]}

\* C17: a toggledetails callback on the detail photo of a card chosen from
\* a /find list is never answered with "No card selected", and the photo's
\* caption is the name or the full text of the card the photo shows, never
\* of another card.
C17_ToggleShowsSelected ==
    (/\ lastOp.op = "toggledetails"
     /\ "selected_card_id" \in DOMAIN user_data[lastOp.user])
    => /\ ~LastSentText(messages, nextId, "no_card_selected")
       /\ \A m \in DOMAIN messages :
             (messages[m].view.kind = "photo" /\ messages[m].view.kb = "detail")
             => messages[m].view.caption.card = messages[m].view.card

\* C18: a findnext/findprev callback handled after a findchoose replaced
\* the list message by the detail photo changes no field of the session.
ListReplaced(u) ==
    /\ "results_msg_id" \in DOMAIN user_data[u]
    /\ ~messages[user_data[u]["results_msg_id"]].live
    /\ "selected_card_id" \in DOMAIN user_data[u]
    /\ DetailShown

C18_LateNavIsNoOp ==
    [][(/\ lastOp'.op \in {"findnext", "findprev"}
        /\ ListReplaced(lastOp'.user))
       => user_data' = user_data]_vars

\* C19: when the same findchoose or showimg callback is handled twice in a
\* row, at most one live photo of the card it names is in the chat.
LivePhotos(msgs, card) ==
    {m \in DOMAIN msgs : /\ msgs[m].live
                         /\ msgs[m].view.kind = "photo"
                         /\ msgs[m].view.card = card}

C19_DuplicateLeavesOnePhoto ==
    [][(/\ lastOp'.op \in {"findchoose", "showimg"}
        /\ lastOp.op = lastOp'.op
        /\ lastOp.user = lastOp'.user
        /\ lastOp.out = lastOp'.out)
       => Cardinality(LivePhotos(messages', lastOp'.out.cid)) <= 1]_vars

\* C20: a message the bot deleted, the list message replaced by a detail
\* photo or a message removed by /cleanup, is in no chat's log any more, and
\* a /cleanup selects no message that was deleted before it: a selected
\* message that is gone after the cleanup was deleted by it.
C20_DeletedIsForgotten ==
    /\ \A m \in DOMAIN messages :
          ~messages[m].live =>
              \A c \in DOMAIN sent_messages : m \notin Range(sent_messages[c])
    /\ lastOp.op = "cleanup" =>
          \A id \in Range(lastOp.out.selected) :
              ~messages[id].live => id \in lastOp.out.gone

\* C21: when pagination callbacks arrived while an earlier one was still
\* rendering, then once all of them are handled the list message shows the
\* window of the final page_offset, not an older one.
Quiescent == update_queue = <<>> /\ running = <<>>

C21_FinalWindowShown ==
    Quiescent =>
        \A u \in Users :
            LET d == user_data[u] IN
            ("results_msg_id" \in DOMAIN d /\ messages[d["results_msg_id"]].live
                /\ messages[d["results_msg_id"]].view.kind = "list")
            => /\ messages[d["results_msg_id"]].view.start
                      = Get(d, "page_offset", 0) * page_size
               /\ messages[d["results_msg_id"]].view.query = d["query"]

\* a callback that arrived during another one's render has been rendered
\* last, two pages on
C21_OverlappedRendered ==
    /\ Quiescent
    /\ lastOp.op = "nav_commit"
    /\ lastOp.shown
    /\ lastOp.out.overlapped
    /\ Get(user_data[lastOp.user], "page_offset", 0) = 2

\* C22: the message a findnext/findprev callback re-renders is the list
\* message of the most recent /find, still in the chat; it is never another
\* message, such as the one /search sent.
C22_NavEditsLatestList ==
    [][lastOp'.op \in {"findnext", "findprev"}
       => \A m \in DOMAIN messages :
              messages'[m] # messages[m]
              => /\ messages[m].view.kind = "list"
                 /\ messages[m].live
                 /\ \A k \in DOMAIN messages :
                       messages[k].view.kind = "list" => k <= m]_vars

\* C23: in inline mode every answer has a next_offset exactly when the
\* provider reports has_more, and when no fetch failed the answers from the
\* empty offset to the empty next_offset present every card of the
\* provider's result set once, in order.
C23_InlinePresentsAll ==
    (lastOp.op = "inline" /\ lastOp.out.query # NoQuery /\ ~lastOp.out.failed)
    => /\ (lastOp.out.next_offset # EmptyOffset) <=> lastOp.out.has_more
       /\ lastOp.out.next_offset = EmptyOffset
             => lastOp.out.presented
                    = [i \in 1..lastOp.out.total |-> Card(lastOp.out.query, i)]
====
